---- MODULE Spec2Model ----
(***************************************************************************)
(* Model of the AudioEngine of src/script.js (WebKeyboard): the registry   *)
(* of sounding notes (activeNotes), the Web Audio nodes the engine creates *)
(* and schedules, the deferred cleanup timers of stopNote, and the         *)
(* engine's settings; and of the KeyboardManager's computer-keyboard        *)
(* handlers (activeKeys), which call the engine.                           *)
(*                                                                         *)
(* Time.  The code schedules at absolute times (currentTime + attack/1000  *)
(* seconds, setTimeout after releaseTime*1000 ms).  The model keeps, for   *)
(* every scheduled event, the milliseconds left until it is due, and Tick  *)
(* counts them down.  Two clocks run: the event loop's, which the timers   *)
(* of setTimeout follow, and the AudioContext's, which the audio nodes     *)
(* follow and which only advances while the context is running.  The       *)
(* startTime that playNote stores in a registry entry (line 87) is written *)
(* once and read nowhere; the model leaves it out.                         *)
(*                                                                         *)
(* Numbers.  Gain values, volumes and frequencies are floats in the code   *)
(* and exact rationals <<numerator, denominator>> here.                    *)
(***************************************************************************)
EXTENDS Integers, Sequences, FiniteSets, TLC

VARIABLES
    audioContext,    \* "null" | "suspended" | "running": this.audioContext and its state
    resumeRequested, \* audioContext.resume() was called and has not yet taken effect
    masterGain,      \* <<>> when this.masterGain is null, else <<gain.value>>
    activeNotes,     \* this.activeNotes: noteId -> [oscillator, gainNode], both a node id
    waveform, volume, octave, attack, release,   \* the engine's settings
    nodes,           \* the audio graph: node id -> the oscillator/gain pair playNote created
    timers,          \* pending setTimeout callbacks of stopNote: [noteId, left]
    lastCall,        \* the branch the handler that ran last took
    activeKeys       \* KeyboardManager.activeKeys, the computer keys held down (its
                     \* DOMAIN), each with the noteId its key press played

vars == <<audioContext, resumeRequested, masterGain, activeNotes,
          waveform, volume, octave, attack, release, nodes, timers, lastCall,
          activeKeys>>

---------------------------------------------------------------------------
(* Bounds of the model *)

MaxNodes == 1          \* oscillators that exist at once, in the one-voice specifications
MaxStops == 1          \* stopNote calls one voice takes, in the one-voice specifications
MaxOctave == 1         \* the highest octave a note is played in

(* Program constants *)
DefaultOctave == 2
DefaultRelease == 200

(* The clocks advance by half the default release time at a Tick *)
Quantum == DefaultRelease \div 2

(* Inputs the environment draws from *)
NoteC == <<"C">>
NoteH == <<"H">>                       \* not a key of noteFrequencies
NoteConstructor == <<"c", "o", "n", "s", "t", "r", "u", "c", "t", "o", "r">>
Waveforms == {"sine", "square"}
Half == <<1, 2>>
Volumes == {<<0, 1>>, Half}
BaseOctaves == {0, DefaultOctave}
Durations == {0, DefaultRelease}
Octaves == (0 - 1)..MaxOctave

---------------------------------------------------------------------------
(* Exact rationals <<n, d>>, d > 0, in lowest terms *)

RECURSIVE Gcd(_, _)
Gcd(a, b) == IF b = 0 THEN a ELSE Gcd(b, a % b)

Abs(x) == IF x < 0 THEN -x ELSE x

Frac(n, d) ==
    LET g == Gcd(Abs(n), Abs(d))
        s == IF d < 0 THEN -1 ELSE 1
    IN  IF n = 0 THEN <<0, 1>> ELSE <<(s * n) \div g, (s * d) \div g>>

Zero == <<0, 1>>
One == <<1, 1>>
RLess(a, b) == a[1] * b[2] < b[1] * a[2]
RLeq(a, b) == a[1] * b[2] <= b[1] * a[2]

RECURSIVE Pow2(_)
Pow2(k) == IF k <= 0 THEN 1 ELSE 2 * Pow2(k - 1)

---------------------------------------------------------------------------
(* Strings as sequences of characters: template literals, split, parseInt *)

DigitChars == <<"0", "1", "2", "3", "4", "5", "6", "7", "8", "9">>
NaN == 0 - 1000000     \* stands for the JS number NaN; never a real octave

RECURSIVE NatToChars(_)
NatToChars(n) ==
    IF n < 10 THEN <<DigitChars[n + 1]>>
    ELSE NatToChars(n \div 10) \o <<DigitChars[(n % 10) + 1]>>

\* String(x) for a JS number that is an integer or NaN
NumToChars(x) ==
    IF x = NaN THEN <<"N", "a", "N">>
    ELSE IF x < 0 THEN <<"-">> \o NatToChars(-x)
    ELSE NatToChars(x)

\* `${note}-${octave}`
NoteId(note, oct) == note \o <<"-">> \o NumToChars(oct)

\* s.split('-'): the pieces of s between the '-' characters
RECURSIVE Split(_)
Split(s) ==
    IF \A i \in 1..Len(s) : s[i] # "-" THEN <<s>>
    ELSE LET i == CHOOSE j \in 1..Len(s) :
                      s[j] = "-" /\ \A k \in 1..(j - 1) : s[k] # "-"
         IN  <<SubSeq(s, 1, i - 1)>> \o Split(SubSeq(s, i + 1, Len(s)))

DigitValue(c) == CHOOSE d \in 0..9 : DigitChars[d + 1] = c
IsDigit(c) == \E d \in 0..9 : DigitChars[d + 1] = c

RECURSIVE DigitsValue(_, _)
DigitsValue(s, acc) ==
    IF s = <<>> \/ ~IsDigit(Head(s)) THEN acc
    ELSE DigitsValue(Tail(s), 10 * acc + DigitValue(Head(s)))

\* parseInt(s): an optional sign, then the leading decimal digits; NaN if none
ParseInt(s) ==
    LET neg == s # <<>> /\ Head(s) = "-"
        body == IF s # <<>> /\ Head(s) \in {"-", "+"} THEN Tail(s) ELSE s
    IN  IF body = <<>> \/ ~IsDigit(Head(body)) THEN NaN
        ELSE IF neg THEN -DigitsValue(body, 0) ELSE DigitsValue(body, 0)

---------------------------------------------------------------------------
(* noteToFrequency *)

\* the table of script.js:29-33, in hundredths of a hertz
noteFrequencies ==
    (<<"C">> :> 1635) @@ (<<"C", "#">> :> 1732) @@ (<<"D">> :> 1835) @@
    (<<"D", "#">> :> 1945) @@ (<<"E">> :> 2060) @@ (<<"F">> :> 2183) @@
    (<<"F", "#">> :> 2312) @@ (<<"G">> :> 2450) @@ (<<"G", "#">> :> 2596) @@
    (<<"A">> :> 2750) @@ (<<"A", "#">> :> 2914) @@ (<<"B">> :> 3087)

\* property names the object literal inherits from Object.prototype: looked
\* up in it they give a function, which is truthy and not a number
inheritedNames == {NoteConstructor}

\* the float NaN, as 0/0
NotANumber == <<0, 0>>

noteToFrequency_TimesOctave(note, oct) ==
    IF note \in inheritedNames THEN NotANumber
    ELSE IF note \notin DOMAIN noteFrequencies THEN Zero
    ELSE Frac(noteFrequencies[note] * 2 * oct, 100)

\* baseFreq * Math.pow(2, octave), in Hz; 0 for a name that gives undefined,
\* NaN for an inherited name
noteToFrequency(note, oct) ==
    IF note \in inheritedNames THEN NotANumber
    ELSE IF note \notin DOMAIN noteFrequencies THEN Zero
    ELSE IF oct >= 0 THEN Frac(noteFrequencies[note] * Pow2(oct), 100)
    ELSE Frac(noteFrequencies[note], 100 * Pow2(-oct))

---------------------------------------------------------------------------
(* The audio graph.  A node is the oscillator/gain pair playNote creates:   *)
(*   noteId       the registry key it was created under                     *)
(*   type, frequency   of the OscillatorNode                                *)
(*   stopLeft     <<>> until oscillator.stop(when) is called, then <<ms     *)
(*                left until when>>; <<0>> once the oscillator has ended    *)
(*   v0, v1, len, left   the gain's automation: setValueAtTime(v0, t0) and  *)
(*                linearRampToValueAtTime(v1, t0 + len), of which `left` ms *)
(*                remain; a ramp that has ended reads v0 = v1, len = 0      *)
(*   value        gain.value: what the last rendering left there (1, the    *)
(*                default of a GainNode, until the node is first rendered)  *)
(*   releaseThen  the release setting when the node was created             *)
(*   stops        the stopNote calls the node has taken                     *)

NoStop == <<>>
Ended(n) == n.stopLeft = <<0>>

Later(ms) == IF ms > Quantum THEN ms - Quantum ELSE 0

\* the value the automation of node n gives when `left` ms of its ramp
\* remain: v0 + (v1 - v0) * (len - left) / len
ValueAt(n, left) ==
    IF left = 0 THEN n.v1
    ELSE Frac(n.v0[1] * n.v1[2] * left + n.v1[1] * n.v0[2] * (n.len - left),
              n.v0[2] * n.v1[2] * n.len)

\* the value the automation of node n gives now
ValueNow(n) == ValueAt(n, n.left)

\* node n one quantum of the audio clock later, rendered
Render(n) ==
    IF Later(n.left) = 0
    THEN [n EXCEPT !.left = 0, !.value = n.v1, !.v0 = n.v1, !.len = 0,
                   !.stopLeft = IF n.stopLeft = NoStop THEN NoStop
                                ELSE <<Later(n.stopLeft[1])>>]
    ELSE [n EXCEPT !.left = Later(n.left), !.value = ValueAt(n, Later(n.left)),
                   !.stopLeft = IF n.stopLeft = NoStop THEN NoStop
                                ELSE <<Later(n.stopLeft[1])>>]

\* the nodes the program or the audio output still holds: a node is dropped
\* once its oscillator has ended and no registry entry refers to it
Retain(ns, reg) ==
    LET keep == {i \in DOMAIN ns :
                    \/ \E k \in DOMAIN reg : reg[k].oscillator = i
                    \/ ~(ns[i].stopLeft = <<0>>)}
    IN  [i \in keep |-> ns[i]]

FreshNode == CHOOSE i \in 1..(Cardinality(DOMAIN nodes) + 1) : i \notin DOMAIN nodes

Has(noteId) == noteId \in DOMAIN activeNotes
NodeOf(noteId) == nodes[activeNotes[noteId].oscillator]
Registered(i) == \E k \in DOMAIN activeNotes : activeNotes[k].oscillator = i

\* the envelope phase of a registry entry's voice
Phase(noteId) ==
    IF NodeOf(noteId).stopLeft # NoStop THEN "Releasing"
    ELSE IF NodeOf(noteId).left > 0 THEN "Attacking"
    ELSE "Sustaining"

---------------------------------------------------------------------------
(* The engine's operations *)

Called(result) == lastCall' = result

\* what `new AudioContext()` can do: throw, or give a suspended or a running context
ContextOutcomes == {"null", "suspended", "running"}

NewNode_AttackFromRelease(noteId, frequency) ==
    [noteId |-> noteId, type |-> waveform, frequency |-> frequency,
     stopLeft |-> NoStop,
     v0 |-> Zero, v1 |-> volume, len |-> release, left |-> release,
     value |-> One, releaseThen |-> release, stops |-> 0]

\* the oscillator/gain pair of script.js:64-81
NewNode(noteId, frequency) ==
    [noteId |-> noteId, type |-> waveform, frequency |-> frequency,
     stopLeft |-> NoStop,
     v0 |-> Zero, v1 |-> volume, len |-> attack, left |-> attack,
     value |-> One, releaseThen |-> release, stops |-> 0]

alreadyPlaying_UnlessAttacking(noteId) ==
    Has(noteId) /\ Phase(noteId) # "Attacking"

alreadyPlaying_UnlessReleasing(noteId) ==
    Has(noteId) /\ Phase(noteId) # "Releasing"

\* script.js:59, "Don't play if already playing"
alreadyPlaying(noteId) == noteId \in DOMAIN activeNotes

lazyInit_Skipped(outcome) == audioContext

\* script.js:44-46: the context playNote goes on with, where `outcome` is what
\* `new AudioContext()` gives if initAudioContext is called
lazyInit(outcome) == IF audioContext = "null" THEN outcome ELSE audioContext

resumeIfSuspended_Never(ctx) == UNCHANGED resumeRequested

\* script.js:49-51: resume() is called on a suspended context
resumeIfSuspended(ctx) == resumeRequested' = (resumeRequested \/ ctx = "suspended")

playNote(note, oct) ==
    \E outcome \in ContextOutcomes :
      LET ctx == lazyInit(outcome)
          mg == IF audioContext = "null" /\ outcome # "null" THEN <<volume>> ELSE masterGain
          frequency == noteToFrequency(note, oct)
          noteId == NoteId(note, oct)
      IN  /\ audioContext # "null" => outcome = audioContext
          /\ audioContext' = ctx
          /\ masterGain' = mg
          /\ UNCHANGED <<waveform, volume, octave, attack, release, timers>>
          /\ IF ctx = "null"
             THEN \* line 49 reads .state of null: TypeError
                  /\ Called("threw")
                  /\ UNCHANGED <<resumeRequested, activeNotes, nodes>>
             ELSE /\ resumeIfSuspended(ctx)
                  /\ IF frequency = Zero
                     THEN /\ Called("noFrequency")
                          /\ UNCHANGED <<activeNotes, nodes>>
                     ELSE IF alreadyPlaying(noteId)
                     THEN /\ Called("alreadyPlaying")
                          /\ UNCHANGED <<activeNotes, nodes>>
                     ELSE IF frequency = NotANumber
                     THEN \* line 66 assigns a non-finite frequency.value: TypeError
                          /\ Called("threw")
                          /\ UNCHANGED <<activeNotes, nodes>>
                     ELSE /\ Called("created")
                          /\ nodes' = (FreshNode :> NewNode(noteId, frequency)) @@ nodes
                          /\ activeNotes' =
                               (noteId :> [oscillator |-> FreshNode,
                                           gainNode |-> FreshNode]) @@ activeNotes

\* the oscillator of node n has ended: its stop time has come and the context,
\* running, has rendered it; stop() on it changes nothing any more
HasEnded(n) == Ended(n) /\ audioContext = "running"

ReleaseNode_FullVolume(n) ==
    [n EXCEPT !.v0 = n.v1, !.v1 = Zero, !.len = release, !.left = release,
              !.stops = n.stops + 1,
              !.stopLeft = IF HasEnded(n) THEN n.stopLeft ELSE <<release>>]

ReleaseNode_ReleaseThen(n) ==
    [n EXCEPT !.v0 = n.value, !.v1 = Zero,
              !.len = n.releaseThen, !.left = n.releaseThen,
              !.stops = n.stops + 1,
              !.stopLeft = IF HasEnded(n) THEN n.stopLeft ELSE <<n.releaseThen>>]

\* script.js:98-108 on the node of a registry entry
ReleaseNode(n) ==
    [n EXCEPT !.v0 = n.value, !.v1 = Zero, !.len = release, !.left = release,
              !.stops = n.stops + 1,
              !.stopLeft = IF HasEnded(n) THEN n.stopLeft ELSE <<release>>]

CleanupTimer_OtherKey(noteId) == [noteId |-> <<"-">> \o noteId, left |-> release]

\* script.js:111-113
CleanupTimer(noteId) == [noteId |-> noteId, left |-> release]

\* the nodes and timers after stopNote has run for each of the noteIds
StopEach(noteIds) ==
    LET hit == {k \in noteIds : Has(k)}
        osc == {activeNotes[k].oscillator : k \in hit}
    IN  /\ nodes' = [i \in DOMAIN nodes |->
                        IF i \in osc THEN ReleaseNode(nodes[i]) ELSE nodes[i]]
        /\ timers' = timers \cup {CleanupTimer(k) : k \in hit}

stopNote_TimerFirst(note, oct) ==
    /\ UNCHANGED <<audioContext, resumeRequested, masterGain, activeNotes,
                   waveform, volume, octave, attack, release>>
    /\ IF ~Has(NoteId(note, oct))
       THEN /\ Called("notFound")
            /\ timers' = timers \cup {CleanupTimer(NoteId(note, oct))}
            /\ UNCHANGED nodes
       ELSE /\ Called("released")
            /\ StopEach({NoteId(note, oct)})

stopNote(note, oct) ==
    /\ UNCHANGED <<audioContext, resumeRequested, masterGain, activeNotes,
                   waveform, volume, octave, attack, release>>
    /\ IF ~Has(NoteId(note, oct))
       THEN /\ Called("notFound")
            /\ UNCHANGED <<nodes, timers>>
       ELSE /\ Called("released")
            /\ StopEach({NoteId(note, oct)})

\* the noteId of the stopNote call stopAllNotes makes for a registry key
DecodeNoteId(noteId) ==
    LET parts == Split(noteId)
    IN  NoteId(parts[1], IF Len(parts) >= 2 THEN ParseInt(parts[2]) ELSE NaN)

stopAllNotes ==
    /\ UNCHANGED <<activeKeys, audioContext, resumeRequested, masterGain, activeNotes,
                   waveform, volume, octave, attack, release>>
    /\ Called("stoppedAll")
    /\ StopEach({DecodeNoteId(k) : k \in DOMAIN activeNotes})

setWaveform_SettingOnly(w) ==
    /\ waveform' = w
    /\ Called("set")
    /\ UNCHANGED <<activeKeys, audioContext, resumeRequested, masterGain, activeNotes,
                   volume, octave, attack, release, nodes, timers>>

setWaveform(w) ==
    /\ waveform' = w
    /\ nodes' = [i \in DOMAIN nodes |->
                    IF Registered(i) THEN [nodes[i] EXCEPT !.type = w] ELSE nodes[i]]
    /\ Called("set")
    /\ UNCHANGED <<activeKeys, audioContext, resumeRequested, masterGain, activeNotes,
                   volume, octave, attack, release, timers>>

setVolume_SettingOnly(v) ==
    /\ volume' = v
    /\ Called(IF masterGain = <<>> THEN "threw" ELSE "set")
    /\ UNCHANGED <<activeKeys, audioContext, resumeRequested, masterGain, activeNotes, waveform,
                   octave, attack, release, nodes, timers>>

setVolume(v) ==
    /\ volume' = v
    /\ IF masterGain = <<>>
       THEN /\ Called("threw")                 \* line 136 on a null masterGain
            /\ UNCHANGED masterGain
       ELSE /\ Called("set")
            /\ masterGain' = <<v>>
    /\ UNCHANGED <<activeKeys, audioContext, resumeRequested, activeNotes, waveform,
                   octave, attack, release, nodes, timers>>

setOctave(o) ==
    /\ octave' = o
    /\ Called("set")
    /\ UNCHANGED <<activeKeys, audioContext, resumeRequested, masterGain, activeNotes,
                   waveform, volume, attack, release, nodes, timers>>

setAttack(a) ==
    /\ attack' = a
    /\ Called("set")
    /\ UNCHANGED <<activeKeys, audioContext, resumeRequested, masterGain, activeNotes,
                   waveform, volume, octave, release, nodes, timers>>

setRelease(r) ==
    /\ release' = r
    /\ Called("set")
    /\ UNCHANGED <<activeKeys, audioContext, resumeRequested, masterGain, activeNotes,
                   waveform, volume, octave, attack, nodes, timers>>

---------------------------------------------------------------------------
(* The computer keyboard (KeyboardManager) *)

\* two rows of createKeyMapping (script.js:175 and 199)
keyMapping ==
    ("q" :> [note |-> NoteC, octaveOffset |-> 0 - 1]) @@
    ("a" :> [note |-> NoteC, octaveOffset |-> 0])

\* the keydown listener (script.js:343-351) and handleKeyPress (363-372)
keydown(key) ==
    /\ key \in DOMAIN keyMapping
    /\ key \notin DOMAIN activeKeys
    /\ LET mapping == keyMapping[key]
           oct == octave + mapping.octaveOffset
       IN  /\ activeKeys' = (key :> NoteId(mapping.note, oct)) @@ activeKeys
           /\ playNote(mapping.note, oct)

\* the keyup listener (script.js:353-359) and handleKeyRelease (390-399)
keyup(key) ==
    /\ key \in DOMAIN keyMapping
    /\ key \in DOMAIN activeKeys
    /\ LET mapping == keyMapping[key]
           oct == octave + mapping.octaveOffset
       IN  /\ activeKeys' = [k \in DOMAIN activeKeys \ {key} |-> activeKeys[k]]
           /\ stopNote(mapping.note, oct)

---------------------------------------------------------------------------
(* Timers and clocks *)

\* the callback of script.js:111-113 runs, once its delay has passed
Cleanup(t) ==
    /\ t \in timers
    /\ t.left = 0
    /\ timers' = timers \ {t}
    /\ activeNotes' = [k \in DOMAIN activeNotes \ {t.noteId} |-> activeNotes[k]]
    /\ nodes' = Retain(nodes, activeNotes')
    /\ Called("none")
    /\ UNCHANGED <<activeKeys, audioContext, resumeRequested, masterGain,
                   waveform, volume, octave, attack, release>>

\* the browser grants a requested resume()
Resume ==
    /\ audioContext = "suspended"
    /\ resumeRequested
    /\ audioContext' = "running"
    /\ resumeRequested' = FALSE
    /\ Called("none")
    /\ UNCHANGED <<activeKeys, masterGain, activeNotes, waveform, volume, octave, attack,
                   release, nodes, timers>>

\* One quantum passes.  The timers follow the event loop's clock; a timer
\* whose delay has passed runs before the clock moves on.  The audio clock
\* advances, and the graph is rendered, only in a running context.
Tick ==
    /\ \A t \in timers : t.left > 0
    /\ timers' = {[t EXCEPT !.left = Later(t.left)] : t \in timers}
    /\ IF audioContext = "running"
       THEN nodes' = Retain([i \in DOMAIN nodes |-> Render(nodes[i])], activeNotes)
       ELSE UNCHANGED nodes
    /\ Called("none")
    /\ UNCHANGED <<activeKeys, audioContext, resumeRequested, masterGain, activeNotes,
                   waveform, volume, octave, attack, release>>

---------------------------------------------------------------------------
(* The constructor (script.js:3-14) and the specification *)

Constructed(ctx) ==
    /\ audioContext = ctx
    /\ resumeRequested = FALSE
    /\ masterGain = IF audioContext = "null" THEN <<>> ELSE <<Half>>
    /\ activeNotes = <<>>
    /\ waveform = "sine"
    /\ volume = Half
    /\ octave = DefaultOctave
    /\ attack = 0
    /\ release = DefaultRelease
    /\ nodes = <<>>
    /\ timers = {}
    /\ lastCall = "none"
    /\ activeKeys = <<>>

Init == \E ctx \in ContextOutcomes : Constructed(ctx)

\* The guards that keep the model finite: a call that would create a node
\* waits while `cap` nodes exist, and a call that would release a voice
\* waits once the voice has taken `cap` stopNote calls.
Room(note, oct, cap) ==
    \/ Cardinality(DOMAIN nodes) < cap
    \/ Has(NoteId(note, oct))
    \/ noteToFrequency(note, oct) \in {Zero, NotANumber}

Fresh(noteIds, cap) ==
    \A k \in noteIds : Has(k) => NodeOf(k).stops < cap

Play(notes, octs, cap) ==
    \E note \in notes, oct \in octs :
        Room(note, oct, cap) /\ playNote(note, oct) /\ UNCHANGED activeKeys

Stop(notes, octs, cap) ==
    \E note \in notes, oct \in octs :
        Fresh({NoteId(note, oct)}, cap) /\ stopNote(note, oct) /\ UNCHANGED activeKeys

StopAll(cap) ==
    Fresh({DecodeNoteId(k) : k \in DOMAIN activeNotes}, cap) /\ stopAllNotes

\* Two voices, one of them in a negative octave, in a context that runs from
\* the start, under the constructor's settings; a voice can be released twice
\* and outlive its registry entry.
Next ==
    \/ Play({NoteC}, {-1, DefaultOctave}, MaxNodes + 1)
    \/ Stop({NoteC}, {-1, DefaultOctave}, MaxStops + 1)
    \/ StopAll(MaxStops + 1)
    \/ \E t \in timers : Cleanup(t)
    \/ Tick

Spec == Constructed("running") /\ [][Next]_vars

\* One voice, and note-offs for a note that never plays, under every
\* waveform, attack time and release time
NextVoice ==
    \/ Play({NoteC}, {DefaultOctave}, MaxNodes)
    \/ Stop({NoteC}, {-1, DefaultOctave}, MaxStops)
    \/ StopAll(MaxStops)
    \/ \E w \in Waveforms : setWaveform(w)
    \/ \E a \in Durations : setAttack(a)
    \/ \E r \in Durations : setRelease(r)
    \/ \E t \in timers : Cleanup(t)
    \/ Resume
    \/ Tick

SpecVoice == Init /\ [][NextVoice]_vars

\* One voice under every release time, where time passes and a timer whose
\* delay has passed runs
NextRelease ==
    \/ Play({NoteC}, {DefaultOctave}, MaxNodes)
    \/ Stop({NoteC}, {-1, DefaultOctave}, MaxStops)
    \/ StopAll(MaxStops)
    \/ \E r \in Durations : setRelease(r)
    \/ \E t \in timers : Cleanup(t)
    \/ Resume
    \/ Tick

Fairness == WF_vars(Tick) /\ WF_vars(\E t \in timers : Cleanup(t))

FairRelease == Init /\ [][NextRelease]_vars /\ Fairness

\* One voice under every volume, base octave, attack time and release time
NextEnvelope ==
    \/ Play({NoteC}, {DefaultOctave}, MaxNodes)
    \/ Stop({NoteC}, {DefaultOctave}, MaxStops)
    \/ StopAll(MaxStops)
    \/ \E v \in Volumes : setVolume(v)
    \/ \E o \in BaseOctaves : setOctave(o)
    \/ \E a \in Durations : setAttack(a)
    \/ \E r \in Durations : setRelease(r)
    \/ \E t \in timers : Cleanup(t)
    \/ Resume
    \/ Tick

SpecEnvelope == Init /\ [][NextEnvelope]_vars

\* One voice that can be released more than once, under every volume, attack
\* time and release time
NextPhase ==
    \/ Play({NoteC}, {DefaultOctave}, MaxNodes)
    \/ Stop({NoteC}, {DefaultOctave}, MaxStops + 1)
    \/ StopAll(MaxStops + 1)
    \/ \E v \in Volumes : setVolume(v)
    \/ \E a \in Durations : setAttack(a)
    \/ \E r \in Durations : setRelease(r)
    \/ \E t \in timers : Cleanup(t)
    \/ Resume
    \/ Tick

SpecPhase == Init /\ [][NextPhase]_vars

\* The computer keyboard: two keys of the note C, pressed and released while
\* the octave slider moves
NextKeys ==
    \/ \E key \in DOMAIN keyMapping :
          /\ Room(keyMapping[key].note, octave + keyMapping[key].octaveOffset, MaxNodes)
          /\ keydown(key)
    \/ \E key \in DOMAIN keyMapping :
          /\ Fresh({NoteId(keyMapping[key].note, octave + keyMapping[key].octaveOffset)},
                   MaxStops)
          /\ keyup(key)
    \/ \E o \in BaseOctaves : setOctave(o)
    \/ \E t \in timers : Cleanup(t)
    \/ Resume
    \/ Tick

SpecKeys == Init /\ [][NextKeys]_vars

\* One voice of any of the twelve names, and note-ons for names the table
\* lacks, in every octave, under the constructor's settings, at one instant
NoteNames == DOMAIN noteFrequencies

NextNotes ==
    \/ Play(NoteNames \cup {NoteH, NoteConstructor}, Octaves, MaxNodes)
    \/ StopAll(MaxStops)
    \/ Resume

SpecNotes == Init /\ [][NextNotes]_vars

---------------------------------------------------------------------------
(* The claims *)

TheNote == NoteId(NoteC, DefaultOctave)
OtherNote == NoteId(NoteC, -1)

\* node i takes a stopNote call in this step
Released(i) ==
    /\ i \in DOMAIN nodes
    /\ i \in DOMAIN nodes'
    /\ nodes'[i].stops = nodes[i].stops + 1

\* C1: no two oscillators started for the same noteId are sounding at once
C1_OneSoundingVoicePerIdentity ==
    \A i, j \in DOMAIN nodes :
        (i # j /\ nodes[i].noteId = nodes[j].noteId)
            => (Ended(nodes[i]) \/ Ended(nodes[j]))

\* C2: playNote for a noteId the registry holds, in whatever phase, takes the
\* "already playing" return and leaves the registry, the nodes (no node
\* created, no gain schedule touched) and the cleanup timers as they were
C2_DuplicateNoteOnIsNoOp ==
    [][(Has(TheNote) /\ playNote(NoteC, DefaultOctave))
        => (lastCall' = "alreadyPlaying"
            /\ UNCHANGED <<activeNotes, nodes, timers>>)]_vars

C2_Witness ==
    /\ lastCall = "alreadyPlaying"
    /\ Has(TheNote)
    /\ Phase(TheNote) = "Attacking"

\* C3: stopNote for a noteId the registry lacks returns without a fault and
\* leaves the registry, every node, the timers and the settings as they were
C3_StrayNoteOffIsNoOp ==
    [][\A oct \in {-1, DefaultOctave} :
         (~Has(NoteId(NoteC, oct)) /\ stopNote(NoteC, oct))
            => (lastCall' = "notFound"
                /\ UNCHANGED <<activeNotes, nodes, timers, audioContext, masterGain,
                               waveform, volume, octave, attack, release>>)]_vars

C3_Witness ==
    /\ lastCall = "notFound"
    /\ Has(TheNote)
    /\ ~Has(OtherNote)

\* C4: when a registry entry is removed, its oscillator has reached its stop
\* time and its release ramp has ended
C4_NoCleanupBeforeSilence ==
    [][\A k \in DOMAIN activeNotes :
         k \notin DOMAIN activeNotes'
            => (Ended(NodeOf(k)) /\ NodeOf(k).left = 0)]_vars

\* C5: a voice that has taken a stopNote call is in time removed from the registry
C5_ReleasedVoiceIsRemoved ==
    (Has(TheNote) /\ Phase(TheNote) = "Releasing") ~> ~Has(TheNote)

C5_Witness ==
    /\ Has(TheNote)
    /\ Phase(TheNote) = "Releasing"
    /\ lastCall = "released"
    /\ \E t \in timers : t.noteId = TheNote /\ t.left > 0

\* C6: once stopAllNotes has returned, the registry holds no voice that is
\* still Attacking or Sustaining
C6_StopAllLeavesNoActiveVoice ==
    lastCall = "stoppedAll"
        => \A k \in DOMAIN activeNotes : Phase(k) = "Releasing"

\* C7, as stated: a stopNote strictly inside the attack ramp starts the
\* release ramp strictly between 0 and the ramp's target volume
C7_Original ==
    [][\A i \in DOMAIN nodes :
         (Released(i) /\ nodes[i].stopLeft = NoStop
                      /\ 0 < nodes[i].left /\ nodes[i].left < nodes[i].len)
            => (RLess(Zero, nodes'[i].v0) /\ RLess(nodes'[i].v0, nodes[i].v1))]_vars

\* C7, amended: for a ramp whose target volume is above 0, a stopNote strictly
\* inside the attack ramp drops the rest of the ramp and starts the release
\* ramp, of the release time, from the gain reached, strictly between 0 and
\* the target
C7_ReleaseFromReachedGain ==
    [][\A i \in DOMAIN nodes :
         (Released(i) /\ nodes[i].stopLeft = NoStop
                      /\ 0 < nodes[i].left /\ nodes[i].left < nodes[i].len
                      /\ nodes[i].v1 # Zero)
            => /\ RLess(Zero, nodes'[i].v0)
               /\ RLess(nodes'[i].v0, nodes[i].v1)
               /\ nodes'[i].v0 = ValueNow(nodes[i])
               /\ nodes'[i].v1 = Zero
               /\ nodes'[i].left = release]_vars

C7_Witness ==
    /\ lastCall = "released"
    /\ Has(TheNote)
    /\ NodeOf(TheNote).v0 = <<1, 4>>
    /\ NodeOf(TheNote).v1 = Zero

\* C8: playNote for a noteId whose voice is Releasing creates nothing, and
\* playNote for a noteId the registry no longer holds creates its voice
C8_NoRetriggerUntilDestroyed ==
    [][/\ (Has(TheNote) /\ Phase(TheNote) = "Releasing"
                        /\ playNote(NoteC, DefaultOctave))
            => (lastCall' = "alreadyPlaying" /\ UNCHANGED <<activeNotes, nodes>>)
       /\ (~Has(TheNote) /\ audioContext # "null"
                         /\ playNote(NoteC, DefaultOctave))
            => (/\ lastCall' = "created"
                /\ TheNote \in DOMAIN activeNotes'
                /\ activeNotes'[TheNote].oscillator \notin DOMAIN nodes
                /\ nodes'[activeNotes'[TheNote].oscillator].stopLeft = NoStop)]_vars

C8_Witness ==
    /\ lastCall = "alreadyPlaying"
    /\ Has(TheNote)
    /\ Phase(TheNote) = "Releasing"
    /\ NodeOf(TheNote).left > 0

\* C9: every voice in the registry has the engine's waveform as its
\* oscillator type, and a step that changes the waveform changes, besides,
\* only the type of the nodes: no gain value or schedule, no frequency, no
\* stop time, no registry entry, no timer
C9_WaveformReachesEveryVoice ==
    [][/\ \A k \in DOMAIN activeNotes' :
            nodes'[activeNotes'[k].oscillator].type = waveform'
       /\ waveform' # waveform
            => /\ UNCHANGED <<activeNotes, timers, masterGain, volume, octave,
                              attack, release>>
               /\ DOMAIN nodes' = DOMAIN nodes
               /\ \A i \in DOMAIN nodes :
                    [nodes'[i] EXCEPT !.type = nodes[i].type] = nodes[i]]_vars

C9_Witness ==
    /\ lastCall = "set"
    /\ waveform = "square"
    /\ Has(TheNote)
    /\ NodeOf(TheNote).type = "square"
    /\ NodeOf(TheNote).value = <<1, 4>>
    /\ NodeOf(TheNote).left > 0

C11_MasterGainFollowsVolume ==
    /\ (masterGain # <<>> => masterGain = <<volume>>)
    /\ [][/\ masterGain' # <<>> => masterGain' = <<volume'>>
          /\ \A v \in Volumes :
                (masterGain # <<>> /\ setVolume(v))
                    => /\ volume' = v
                       /\ masterGain' = <<v>>
                       /\ lastCall' = "set"
                       /\ UNCHANGED <<activeNotes, nodes, timers>>]_vars

C11_Witness ==
    /\ lastCall = "set"
    /\ volume = Zero
    /\ masterGain = <<Zero>>
    /\ Has(TheNote)
    /\ NodeOf(TheNote).v1 = Half
    /\ NodeOf(TheNote).left > 0

\* C12: while the audio backend is uninitialised (audioContext and masterGain
\* null), no setter and no playNote call ends in a fault
C12_NoFaultWithoutBackend ==
    audioContext = "null" => lastCall # "threw"

\* C13: in an engine with an audio context, playNote for a name that is not
\* one of the twelve takes the "frequency 0" return, in every octave: no
\* fault, no node, no registry entry, no timer
C13_UnknownNameIsDeclined ==
    [][\A n \in {NoteH, NoteConstructor}, k \in Octaves :
         (audioContext' # "null" /\ playNote(n, k))
            => (lastCall' = "noFrequency"
                /\ UNCHANGED <<activeNotes, nodes, timers>>)]_vars

\* twice a rational
Twice(a) == Frac(2 * a[1], a[2])

\* C14: the oscillator playNote creates for one of the twelve names n in
\* octave k has the frequency noteToFrequency(n, k), whatever the state; it
\* is twice noteToFrequency(n, k - 1) and half noteToFrequency(n, k + 1), and
\* in octave 0 it is the table's value for n
C14_OctaveDoublesFrequency ==
    [][\A n \in NoteNames, k \in Octaves :
         (lastCall' = "created" /\ NoteId(n, k) \notin DOMAIN activeNotes
                                /\ NoteId(n, k) \in DOMAIN activeNotes')
            => LET f == nodes'[activeNotes'[NoteId(n, k)].oscillator].frequency
               IN  /\ f = noteToFrequency(n, k)
                   /\ f = Twice(noteToFrequency(n, k - 1))
                   /\ Twice(f) = noteToFrequency(n, k + 1)
                   /\ RLess(Zero, f)
                   /\ k = 0 => f = Frac(noteFrequencies[n], 100)]_vars

C14_Witness ==
    /\ lastCall = "created"
    /\ \E i \in DOMAIN nodes :
          /\ nodes[i].noteId = NoteId(<<"B">>, 1)
          /\ nodes[i].frequency = <<3087, 50>>

\* C15: with attack = 0 the voice playNote creates is Sustaining at once: its
\* ramp has length 0 and no time left, the scheduled gain is the volume
\* setting, no stop is scheduled, and the call ends without a fault
C15_ZeroAttackSustainsAtOnce ==
    [][(attack = 0 /\ ~Has(TheNote) /\ audioContext' # "null"
                   /\ playNote(NoteC, DefaultOctave))
         => /\ lastCall' = "created"
            /\ TheNote \in DOMAIN activeNotes'
            /\ LET n == nodes'[activeNotes'[TheNote].oscillator]
               IN  /\ n.len = 0
                   /\ n.left = 0
                   /\ n.stopLeft = NoStop
                   /\ n.v1 = volume
                   /\ ValueNow(n) = volume]_vars

C15_Witness ==
    /\ lastCall = "created"
    /\ attack = 0
    /\ volume = Half
    /\ Has(TheNote)
    /\ Phase(TheNote) = "Sustaining"
    /\ ValueNow(NodeOf(TheNote)) = Half

\* C16: a cleanup callback removes only the entry of a voice that was
\* released: never the entry of a voice that is Attacking or Sustaining
C16_CleanupSparesActiveVoices ==
    [][\A k \in DOMAIN activeNotes :
         k \notin DOMAIN activeNotes' => Phase(k) = "Releasing"]_vars

\* C17: every oscillator that has no stop scheduled is the voice of the
\* registry entry of its identity
C17_NoOrphanedVoice ==
    \A i \in DOMAIN nodes :
        nodes[i].stopLeft = NoStop
            => (Has(nodes[i].noteId) /\ activeNotes[nodes[i].noteId].oscillator = i)

\* C18: the noteId stopAllNotes passes on for a registry key, got by
\* splitting the key at '-' and parsing the octave, is the key itself
C18_RegistryKeyDecodesToItself ==
    \A k \in DOMAIN activeNotes : DecodeNoteId(k) = k

\* C19: in no step does a voice move back in Attacking, Sustaining,
\* Releasing: a voice with a stop scheduled keeps a stop scheduled and a ramp
\* towards 0, and its scheduled gain does not rise; a voice whose attack ramp
\* has ended gets no new attack ramp; and a node that exists outside the
\* registry is never registered again
C19_PhaseOnlyMovesForward ==
    [][\A i \in DOMAIN nodes \cap DOMAIN nodes' :
         /\ nodes[i].stopLeft # NoStop
               => /\ nodes'[i].stopLeft # NoStop
                  /\ nodes'[i].v1 = Zero
                  /\ RLeq(ValueNow(nodes'[i]), ValueNow(nodes[i]))
         /\ (nodes[i].stopLeft = NoStop /\ nodes[i].left = 0
                                        /\ nodes'[i].stopLeft = NoStop)
               => (nodes'[i].left = 0 /\ nodes'[i].v1 = nodes[i].v1)
         /\ (\E k \in DOMAIN activeNotes' : activeNotes'[k].oscillator = i)
               => Registered(i)]_vars

\* C20: the stopNote a key release makes is for the noteId the playNote of
\* that key's press was for; so if that voice is in the registry, the key
\* release puts it into Releasing
C20_KeyReleaseMatchesKeyPress ==
    [][\A key \in DOMAIN activeKeys :
         keyup(key)
            => /\ NoteId(keyMapping[key].note, octave + keyMapping[key].octaveOffset)
                    = activeKeys[key]
               /\ Has(activeKeys[key])
                    => nodes'[activeNotes[activeKeys[key]].oscillator].stopLeft # NoStop]_vars

\* the results of a playNote call; where setVolume is not called, a step that
\* ends with one of them is a playNote call
playNoteResults == {"threw", "noFrequency", "alreadyPlaying", "created"}

\* C21: playNote initialises and resumes lazily.  While the context is null a
\* playNote call passes on whatever `new AudioContext()` gives (each outcome
\* of the constructor is an outcome of the call); a call that gets a context
\* sets the master gain to the volume, and a call that gets none creates no
\* voice.  A call on a context that exists leaves the context and the master
\* gain alone.  Every call that goes on with a suspended context has
\* requested a resume when it ends, whether it creates a voice or returns
\* early; a call on a running context requests none.
C21_LazyInitAndResume ==
    /\ [](audioContext = "null"
             => \A n \in {NoteC, NoteH}, o \in ContextOutcomes :
                   ENABLED (playNote(n, 0) /\ audioContext' = o))
    /\ [][lastCall' \in playNoteResults
               => /\ audioContext = "null"
                     => IF audioContext' = "null"
                        THEN /\ lastCall' = "threw"
                             /\ UNCHANGED <<masterGain, resumeRequested,
                                            activeNotes, nodes>>
                        ELSE masterGain' = <<volume>>
                  /\ audioContext # "null" => UNCHANGED <<audioContext, masterGain>>
                  /\ audioContext' = "suspended" => resumeRequested'
                  /\ audioContext' = "running" => UNCHANGED resumeRequested
                  /\ DOMAIN nodes' # DOMAIN nodes
                        => /\ lastCall' = "created"
                           /\ audioContext' # "null"
                           /\ audioContext' = "suspended" => resumeRequested']_vars

C21_Witness ==
    /\ lastCall = "created"
    /\ audioContext = "suspended"
    /\ resumeRequested
    /\ masterGain = <<volume>>
    /\ \E i \in DOMAIN nodes : nodes[i].stopLeft = NoStop

====
